---- MODULE Spec2Model ----
(***************************************************************************)
(* Selector tester (scripts/selector_tester.py): a run of                  *)
(* test_html_selectors launches a browser, navigates, builds a parser for  *)
(* the requested ParserType and lets it extract one ElementResult per      *)
(* selector.  The browser driver (Playwright) is the environment: every    *)
(* driver call returns or raises, chosen nondeterministically.             *)
(***************************************************************************)
EXTENDS Integers, Sequences, FiniteSets, TLC

\* ---------------------------------------------------------------- bounds
MaxSel == 2
MaxApiCalls == 1
MaxSelTwice == 1
MaxRegistryCalls == 3
SelectorNames == {"a", "b"}
Texts == {"", "text"}
Htmls == {"", "<p>"}
ApiTimeouts == {1000, 2000, 5000, 10000}

\* ------------------------------------------------------- program values
None == "None"
Raise == "<raise>"
Unread == "<unread>"

DEFAULT == "default"
GREENHOUSE == "greenhouse"
ANGULAR == "angular"
ParserType == {DEFAULT, GREENHOUSE, ANGULAR}

DefaultParser == "DefaultParser"
GreenhouseParser == "GreenhouseParser"
AngularParser == "AngularParser"
ParserClasses == {DefaultParser, GreenhouseParser, AngularParser}

BaseTimeout == 5000
GreenhouseTimeout == 5000
AngularTimeout == 10000
FallbackTimeout == 2000
IframeTimeout == 5000
LoadStateTimeout == 30000
GotoTimeout == 30000
BootstrapSleep == 2000
AngularPollTimeout == 10000
RenderSleep == 3000

IframeSelector == "#grnhse_iframe"

\* str(e) of the exceptions the driver and the interpreter raise
TimeoutMsg == "Timeout exceeded"
DriverMsg == "Driver error"
PrintMsg == "print failed"
AttributeErrorMsg == "object has no attribute 'parser_type'"
NotFoundMsg == "Element not found"

SeqsUpTo(S, n) == UNION {[1..k -> S] : k \in 0..n}

\* selector lists up to renaming of the selectors: the first one is "a"
SelectorLists == {s \in SeqsUpTo(SelectorNames, MaxSel) : s = <<>> \/ s[1] = "a"}

\* ElementResult dataclass; fields left out by a caller keep their defaults
ElementResult(selector, found, text_content, html_content, error_message, context) ==
    [selector |-> selector, found |-> found, text_content |-> text_content,
     html_content |-> html_content, error_message |-> error_message,
     context |-> context]

\* ParseContext dataclass and its target property
ParseContext(frame, parser_type) ==
    [page |-> "page", frame |-> frame, parser_type |-> parser_type]

Target(context) == IF context.frame # None THEN context.frame ELSE context.page

\* One driver call as it is recorded in the run's log
Call(op, target, arg, timeout, i, out) ==
    [op |-> op, target |-> target, arg |-> arg, timeout |-> timeout, i |-> i,
     out |-> out]

SimpleCall(op, target, arg, timeout, out) == Call(op, target, arg, timeout, 0, out)

\* What the driver answers to wait_for_selector and to the two reads that
\* follow it when an element came back; a read that is not reached is Unread.
QueryResponses ==
    {[out |-> o, text |-> Unread, html |-> Unread] : o \in {"none", "timeout", "error"}}
    \cup {[out |-> "element", text |-> Raise, html |-> Unread]}
    \cup {[out |-> "element", text |-> t, html |-> h] : t \in Texts, h \in Htmls \cup {Raise}}

\* what the log keeps of an answer: the element came back and was read ("ok"),
\* or the query or one of the reads gave nothing or raised ("failed")
Answer(r) ==
    IF r.out = "element" /\ r.text \in Texts /\ r.html \in Htmls THEN "ok" ELSE "failed"

StrOf(kind) == IF kind = "timeout" THEN TimeoutMsg ELSE DriverMsg

_get_context_name(context) ==
    IF context.frame # None THEN context.parser_type \o "_frame"
    ELSE context.parser_type

\* SelectorParser.extract_element: the result, whether an exception left the
\* method, and the driver calls it made, for selector number i
BaseExtractMutNoCatch(context, selector, timeout, i, r) ==
    LET q == Call("wait_for_selector", Target(context), selector, timeout, i, Answer(r))
        name == _get_context_name(context)
    IN IF r.out = "element" /\ r.text # Raise /\ r.html # Raise
       THEN [raised |-> FALSE, calls |-> <<q>>,
             result |-> ElementResult(selector, TRUE, r.text, r.html, None, name)]
       ELSE IF r.out = "none"
       THEN [raised |-> FALSE, calls |-> <<q>>,
             result |-> ElementResult(selector, FALSE, None, None, NotFoundMsg, name)]
       ELSE [raised |-> TRUE, calls |-> <<q>>,
             result |-> ElementResult(selector, FALSE, None, None,
                                      StrOf(r.out), name)]

BaseExtractMutKeepsText(context, selector, timeout, i, r) ==
    LET q == Call("wait_for_selector", Target(context), selector, timeout, i, Answer(r))
        name == _get_context_name(context)
    IN IF r.out = "element" /\ r.text # Raise /\ r.html # Raise
       THEN [raised |-> FALSE, calls |-> <<q>>,
             result |-> ElementResult(selector, TRUE, r.text, r.html, None, name)]
       ELSE IF r.out = "none"
       THEN [raised |-> FALSE, calls |-> <<q>>,
             result |-> ElementResult(selector, FALSE, None, None, NotFoundMsg, name)]
       ELSE [raised |-> FALSE, calls |-> <<q>>,
             result |-> ElementResult(selector, FALSE,
                                      IF r.text \in Texts THEN r.text ELSE None,
                                      None, StrOf(r.out), name)]

BaseExtractMutNoHtml(context, selector, timeout, i, r) ==
    LET q == Call("wait_for_selector", Target(context), selector, timeout, i, Answer(r))
        name == _get_context_name(context)
    IN IF r.out = "element" /\ r.text # Raise /\ r.html # Raise
       THEN [raised |-> FALSE, calls |-> <<q>>,
             result |-> ElementResult(selector, TRUE, r.text, None, None, name)]
       ELSE IF r.out = "none"
       THEN [raised |-> FALSE, calls |-> <<q>>,
             result |-> ElementResult(selector, FALSE, None, None, NotFoundMsg, name)]
       ELSE [raised |-> FALSE, calls |-> <<q>>,
             result |-> ElementResult(selector, FALSE, None, None,
                                      StrOf(r.out), name)]

BaseExtract(context, selector, timeout, i, r) ==
    LET q == Call("wait_for_selector", Target(context), selector, timeout, i, Answer(r))
        name == _get_context_name(context)
    IN IF r.out = "element" /\ r.text # Raise /\ r.html # Raise
       THEN [raised |-> FALSE, calls |-> <<q>>,
             result |-> ElementResult(selector, TRUE, r.text, r.html, None, name)]
       ELSE IF r.out = "none"
       THEN [raised |-> FALSE, calls |-> <<q>>,
             result |-> ElementResult(selector, FALSE, None, None, NotFoundMsg, name)]
       ELSE [raised |-> FALSE, calls |-> <<q>>,
             result |-> ElementResult(selector, FALSE, None, None,
                                      StrOf(r.out), name)]

\* GreenhouseParser.extract_element: frame first, main page as fallback
GreenhouseExtractMutNoFallback(context, selector, timeout, i, r1, r2) ==
    BaseExtract(context, selector, timeout, i, r1)

GreenhouseExtractMutAlwaysFallback(context, selector, timeout, i, r1, r2) ==
    LET first == BaseExtract(context, selector, timeout, i, r1)
        main_context == ParseContext(None, context.parser_type)
        second == BaseExtract(main_context, selector, FallbackTimeout, i, r2)
    IN IF first.raised \/ first.result.found
       THEN first
       ELSE [second EXCEPT !.calls = first.calls \o second.calls]

GreenhouseExtract(context, selector, timeout, i, r1, r2) ==
    IF context.frame # None
    THEN LET first == BaseExtract(context, selector, timeout, i, r1)
             main_context == ParseContext(None, context.parser_type)
             second == BaseExtract(main_context, selector, FallbackTimeout, i, r2)
         IN IF first.raised \/ first.result.found
            THEN first
            ELSE [second EXCEPT !.calls = first.calls \o second.calls]
    ELSE BaseExtract(context, selector, timeout, i, r1)

\* AngularParser.extract_element
AngularExtract(context, selector, timeout, i, r) ==
    BaseExtract(context, selector, timeout, i, r)

ExtractDefaultTimeoutMutSame(cls) == BaseTimeout

\* the default of the timeout parameter of each class's extract_element
ExtractDefaultTimeout(cls) ==
    IF cls = AngularParser THEN AngularTimeout
    ELSE IF cls = GreenhouseParser THEN GreenhouseTimeout
    ELSE BaseTimeout

\* method resolution of self.extract_element
ExtractElement(cls, context, selector, timeout, i, r1, r2) ==
    IF cls = GreenhouseParser
    THEN GreenhouseExtract(context, selector, timeout, i, r1, r2)
    ELSE IF cls = AngularParser
    THEN AngularExtract(context, selector, timeout, i, r1)
    ELSE BaseExtract(context, selector, timeout, i, r1)

\* ------------------------------------------------------------ strategies
NoContext == [page |-> None, frame |-> None, parser_type |-> None]

SetupOutcomes == {"frame", "no_frame", "frame_error", "none", "timeout", "error"}

SetupMutNoCatch(cls, out) ==
    IF cls = GreenhouseParser
    THEN LET lookup == SimpleCall("wait_for_selector", "page", IframeSelector,
                                  IframeTimeout,
                                  IF out \in {"none", "timeout", "error"}
                                  THEN out ELSE "element")
             content == SimpleCall("content_frame", "element", None, 0, out)
         IN [raised |-> out \in {"timeout", "error", "frame_error"},
             context |-> ParseContext(IF out = "frame" THEN "frame" ELSE None,
                                      GREENHOUSE),
             calls |-> IF out \in {"frame", "no_frame", "frame_error"}
                       THEN <<lookup, content>> ELSE <<lookup>>]
    ELSE [raised |-> FALSE,
          context |-> ParseContext(None, IF cls = AngularParser THEN ANGULAR
                                         ELSE DEFAULT),
          calls |-> <<>>]

\* setup() of the three parsers; out is what the driver answers to the lookup
\* of the Greenhouse iframe and to content_frame()
Setup(cls, out) ==
    IF cls = GreenhouseParser
    THEN LET lookup == SimpleCall("wait_for_selector", "page", IframeSelector,
                                  IframeTimeout,
                                  IF out \in {"none", "timeout", "error"}
                                  THEN out ELSE "element")
             content == SimpleCall("content_frame", "element", None, 0, out)
         IN [raised |-> FALSE,
             context |-> ParseContext(IF out = "frame" THEN "frame" ELSE None,
                                      GREENHOUSE),
             calls |-> IF out \in {"frame", "no_frame", "frame_error"}
                       THEN <<lookup, content>> ELSE <<lookup>>]
    ELSE [raised |-> FALSE,
          context |-> ParseContext(None, IF cls = AngularParser THEN ANGULAR
                                         ELSE DEFAULT),
          calls |-> <<>>]

WaitOutcomes ==
    [load : {"ok", "timeout", "error"}, sleep1 : {"ok", "error"},
     poll : {"ok", "timeout", "error"}, sleep2 : {"ok", "error"}]

LoadCall(target, out) ==
    SimpleCall("wait_for_load_state", target, "domcontentloaded", LoadStateTimeout, out)

\* DefaultParser.wait_for_content and GreenhouseParser.wait_for_content: only
\* PlaywrightTimeoutError is caught
LoadStateWaitMutTimeoutFatal(target, w) ==
    [raised |-> w.load # "ok",
     exc |-> IF w.load = "ok" THEN None ELSE StrOf(w.load),
     calls |-> <<LoadCall(target, w.load)>>]

LoadStateWait(target, w) ==
    [raised |-> w.load = "error",
     exc |-> IF w.load = "error" THEN DriverMsg ELSE None,
     calls |-> <<LoadCall(target, w.load)>>]

AngularWaitMutPollFatal(context, w) ==
    LET load == LoadCall("page", w.load)
        sleep1 == SimpleCall("wait_for_timeout", "page", "bootstrap", BootstrapSleep, w.sleep1)
        poll == SimpleCall("wait_for_function", "page", "indicators", AngularPollTimeout, w.poll)
        sleep2 == SimpleCall("wait_for_timeout", "page", "render", RenderSleep, w.sleep2)
    IN [raised |-> FALSE, exc |-> None,
        calls |-> IF w.load # "ok" THEN <<load>>
                  ELSE IF w.sleep1 # "ok" THEN <<load, sleep1>>
                  ELSE IF w.poll # "ok" THEN <<load, sleep1, poll>>
                  ELSE <<load, sleep1, poll, sleep2>>]

\* AngularParser.wait_for_content: four stages, every exception is caught
AngularWait(context, w) ==
    LET load == LoadCall("page", w.load)
        sleep1 == SimpleCall("wait_for_timeout", "page", "bootstrap", BootstrapSleep, w.sleep1)
        poll == SimpleCall("wait_for_function", "page", "indicators", AngularPollTimeout, w.poll)
        sleep2 == SimpleCall("wait_for_timeout", "page", "render", RenderSleep, w.sleep2)
    IN [raised |-> FALSE, exc |-> None,
        calls |-> IF w.load # "ok" THEN <<load>>
                  ELSE IF w.sleep1 # "ok" THEN <<load, sleep1>>
                  ELSE IF w.poll = "error" THEN <<load, sleep1, poll>>
                  ELSE <<load, sleep1, poll, sleep2>>]

\* method resolution of self.wait_for_content
WaitForContent(cls, context, w) ==
    IF cls = AngularParser THEN AngularWait(context, w)
    ELSE IF cls = GreenhouseParser THEN LoadStateWait(Target(context), w)
    ELSE LoadStateWait(context.page, w)

\* SelectorParser.__init__ sets page, selectors and results; no class of the
\* hierarchy defines parser_type
HasParserTypeAttr(cls) == FALSE

ParserTypeValue(cls) ==
    IF cls = GreenhouseParser THEN GREENHOUSE
    ELSE IF cls = AngularParser THEN ANGULAR ELSE DEFAULT

ParserErrorMsg(e) == "Parser error: " \o e

RECURSIVE HandlerLoop(_, _, _, _, _)
\* the `except Exception` block of SelectorParser.parse, from selector k on:
\* reading self.parser_type raises AttributeError out of the handler
HandlerLoop(cls, sels, res, e, k) ==
    IF k > Len(sels) THEN [raised |-> FALSE, results |-> res]
    ELSE IF \E j \in 1..Len(res) : res[j].selector = sels[k]
    THEN HandlerLoop(cls, sels, res, e, k + 1)
    ELSE IF ~HasParserTypeAttr(cls) THEN [raised |-> TRUE, results |-> res]
    ELSE HandlerLoop(cls, sels,
                     Append(res, ElementResult(sels[k], FALSE, None, None,
                                               ParserErrorMsg(e),
                                               ParserTypeValue(cls))),
                     e, k + 1)

ParseHandler(cls, sels, res, e) == HandlerLoop(cls, sels, res, e, 1)

\* ------------------------------------------------------------- registry
InitialParsers ==
    [t \in ParserType |->
        IF t = GREENHOUSE THEN GreenhouseParser
        ELSE IF t = ANGULAR THEN AngularParser ELSE DefaultParser]

\* ParserFactory.create_parser
CreateParserClass(table, parser_type) ==
    IF parser_type \in DOMAIN table THEN table[parser_type] ELSE DefaultParser

\* --------------------------------------------------------- orchestrator
NavigationFailedMsg(e) == "Navigation failed: " \o e
UnexpectedErrorMsg(e) == "Unexpected error: " \o e

\* the loop of the `except Exception` branch around page.goto
NavigationFailedResultsMutContext(sels, e) ==
    [k \in 1..Len(sels) |->
        ElementResult(sels[k], FALSE, None, None, NavigationFailedMsg(e), "main_page")]

NavigationFailedResults(sels, e) ==
    [k \in 1..Len(sels) |->
        ElementResult(sels[k], FALSE, None, None, NavigationFailedMsg(e), "error")]

\* the outer `except Exception` block: back-fill only when results is empty
UnexpectedErrorResultsMutDedup(sels, res, e) ==
    IF res = <<>>
    THEN LET firsts == {k \in 1..Len(sels) : \A j \in 1..(k - 1) : sels[j] # sels[k]}
             F[k \in 0..Len(sels)] ==
                 IF k = 0 THEN <<>>
                 ELSE IF k \in firsts
                 THEN Append(F[k - 1], ElementResult(sels[k], FALSE, None, None,
                                                     UnexpectedErrorMsg(e), "error"))
                 ELSE F[k - 1]
         IN F[Len(sels)]
    ELSE res

UnexpectedErrorResults(sels, res, e) ==
    IF res = <<>>
    THEN [k \in 1..Len(sels) |->
            ElementResult(sels[k], FALSE, None, None, UnexpectedErrorMsg(e), "error")]
    ELSE res

\* `if browser:` of the finally block
ShouldCloseMutOnlyOnSuccess(b, e) == b # None /\ e = None

ShouldClose(b, e) == b # None

\* `except PlaywrightTimeoutError` is passed over, `except Exception` returns
NavigationFatalMutTimeout(out) == out # "ok"

NavigationFatal(out) == out = "error"

\* self.results = [] of SelectorParser.__init__; old is the list of the
\* parser object of the previous run, if any
NewResultsMutShared(old) == old

NewResults(old) == <<>>

\* `for selector in self.selectors`: the selector of iteration k
LoopSelectorMutReversed(sels, k) == sels[Len(sels) + 1 - k]

LoopSelector(sels, k) == sels[k]

\* ParserFactory.register_parser
RegisterMutResetsOthers(table, parser_type, parser_class) ==
    [t \in DOMAIN InitialParsers \cup {parser_type} |->
        IF t = parser_type THEN parser_class ELSE InitialParsers[t]]

Register(table, parser_type, parser_class) ==
    [t \in DOMAIN table \cup {parser_type} |->
        IF t = parser_type THEN parser_class ELSE table[t]]

\* the calls of a method, after the record of the method call itself
Method(name, calls) == <<SimpleCall(name, "parser", None, 0, "called")>> \o calls

\* the answers extract_element consumed: the second one only with a fallback
Used(x, r1, r2) == IF Len(x.calls) = 2 THEN <<r1, r2>> ELSE <<r1>>

VARIABLES
    parser,           \* the ParserType argument
    selectors,        \* the selectors argument
    pc,               \* position of the run
    browser,          \* None, "open" or "closed"
    nav,              \* outcome of page.goto
    _parsers,         \* ParserFactory._parsers
    parser_instance,  \* class of the parser created for the run
    context,          \* the ParseContext returned by setup()
    self_results,     \* parser_instance.results
    results,          \* the local results of test_html_selectors
    idx,              \* position of the selector loop of parse()
    exc,              \* str(e) of the exception being handled
    raisedBy,         \* the step that raised the last exception
    log,              \* the calls made so far in this run, in order
    session           \* runs of the same call: the environment's answers in the
                      \* first run (script), replayed in the second, and the
                      \* first run's returned list (prev)

vars == <<parser, selectors, pc, browser, nav, _parsers, parser_instance, context,
          self_results, results, idx, exc, raisedBy, log, session>>

Session(left) == [left |-> left, run |-> 1, script |-> <<>>, cursor |-> 1, prev |-> <<>>]

\* the environment may give answer v to a call of this kind: anything in a
\* first run, the recorded answer when the run repeats against the same page
Admits(kind, v) ==
    \/ session.run = 1
    \/ /\ session.cursor <= Len(session.script)
       /\ session.script[session.cursor].kind = kind
       /\ session.script[session.cursor].v = v

Played(kind, v) ==
    session' = IF session.run = 1
               THEN IF session.left > 0
                    THEN [session EXCEPT !.script = Append(@, [kind |-> kind, v |-> v])]
                    ELSE session
               ELSE [session EXCEPT !.cursor = @ + 1]

\* the answers tried for an element query: all of them in a single run; when the
\* call is repeated, one markup value stands for all
ReplayResponses ==
    {r \in QueryResponses :
        r.html \in {Unread, "<p>"} \/ (r.html = Raise /\ r.text = "text")}

Responses == IF session.left > 0 \/ session.run > 1 THEN ReplayResponses ELSE QueryResponses

Locals ==
    /\ pc = "launch"
    /\ browser = None
    /\ nav = None
    /\ _parsers = InitialParsers
    /\ parser_instance = None
    /\ context = NoContext
    /\ self_results = <<>>
    /\ results = <<>>
    /\ idx = 1
    /\ exc = None
    /\ raisedBy = None
    /\ log = <<>>

Init ==
    /\ parser \in ParserType
    /\ selectors \in SelectorLists
    /\ Locals
    /\ session = Session(0)

\* browser = await p.chromium.launch(headless=headless)
Launch ==
    /\ pc = "launch"
    /\ \E out \in {"ok", "error"} :
        /\ Admits("launch", out) /\ Played("launch", out)
        /\ log' = Append(log, SimpleCall("launch", "chromium", None, 0, out))
        /\ IF out = "ok"
           THEN /\ browser' = "open" /\ pc' = "new_page"
                /\ UNCHANGED <<exc, raisedBy>>
           ELSE /\ exc' = DriverMsg /\ raisedBy' = "launch" /\ pc' = "except"
                /\ UNCHANGED browser
    /\ UNCHANGED <<parser, selectors, nav, _parsers, parser_instance, context,
                   self_results, results, idx>>

\* page = await browser.new_page()
NewPage ==
    /\ pc = "new_page"
    /\ \E out \in {"ok", "error"} :
        /\ Admits("new_page", out) /\ Played("new_page", out)
        /\ log' = Append(log, SimpleCall("new_page", "browser", None, 0, out))
        /\ IF out = "ok"
           THEN pc' = "goto" /\ UNCHANGED <<exc, raisedBy>>
           ELSE exc' = DriverMsg /\ raisedBy' = "new_page" /\ pc' = "except"
    /\ UNCHANGED <<parser, selectors, browser, nav, _parsers, parser_instance,
                   context, self_results, results, idx>>

\* await page.goto(...): a timeout is logged, any other exception returns the
\* navigation-failure results
Goto ==
    /\ pc = "goto"
    /\ \E out \in {"ok", "timeout", "error"} :
        /\ Admits("goto", out) /\ Played("goto", out)
        /\ log' = Append(log, SimpleCall("goto", "page", "url", GotoTimeout, out))
        /\ nav' = out
        /\ IF NavigationFatal(out)
           THEN /\ results' = NavigationFailedResults(selectors, DriverMsg)
                /\ pc' = "finally"
           ELSE /\ pc' = "create" /\ UNCHANGED results
    /\ UNCHANGED <<parser, selectors, browser, _parsers, parser_instance, context,
                   self_results, idx, exc, raisedBy>>

\* parser_instance = ParserFactory.create_parser(parser, page, selectors)
CreateParser ==
    /\ pc = "create"
    /\ parser_instance' = CreateParserClass(_parsers, parser)
    /\ self_results' = NewResults(self_results)
    /\ pc' = "header"
    /\ UNCHANGED <<parser, selectors, browser, nav, _parsers, context, results, idx,
                   exc, raisedBy, log, session>>

\* the five print calls of the header
PrintHeader ==
    /\ pc = "header"
    /\ \E out \in {"ok", "error"} :
        /\ Admits("header", out) /\ Played("header", out)
        /\ log' = Append(log, SimpleCall("print", "console", "header", 0, out))
        /\ IF out = "ok"
           THEN pc' = "setup" /\ UNCHANGED <<exc, raisedBy>>
           ELSE exc' = PrintMsg /\ raisedBy' = "header" /\ pc' = "except"
    /\ UNCHANGED <<parser, selectors, browser, nav, _parsers, parser_instance,
                   context, self_results, results, idx>>

\* parse(): context = await self.setup()
ParseSetup ==
    /\ pc = "setup"
    /\ \E out \in SetupOutcomes :
        LET s == Setup(parser_instance, out) IN
        /\ Admits("setup", s.calls) /\ Played("setup", s.calls)
        /\ log' = log \o Method("setup", s.calls)
        /\ IF s.raised
           THEN /\ exc' = DriverMsg /\ raisedBy' = "setup" /\ pc' = "parse_except"
                /\ UNCHANGED context
           ELSE /\ context' = s.context /\ pc' = "wait"
                /\ UNCHANGED <<exc, raisedBy>>
    /\ UNCHANGED <<parser, selectors, browser, nav, _parsers, parser_instance,
                   self_results, results, idx>>

\* parse(): await self.wait_for_content(context)
ParseWait ==
    /\ pc = "wait"
    /\ \E w \in WaitOutcomes :
        LET r == WaitForContent(parser_instance, context, w) IN
        /\ Admits("wait", r.calls) /\ Played("wait", r.calls)
        /\ log' = log \o Method("wait_for_content", r.calls)
        /\ IF r.raised
           THEN exc' = r.exc /\ raisedBy' = "wait" /\ pc' = "parse_except"
           ELSE pc' = "extract" /\ UNCHANGED <<exc, raisedBy>>
    /\ UNCHANGED <<parser, selectors, browser, nav, _parsers, parser_instance,
                   context, self_results, results, idx>>

\* parse(): one iteration of `for selector in self.selectors`
ParseExtract ==
    /\ pc = "extract"
    /\ idx <= Len(selectors)
    /\ \E r1 \in Responses, r2 \in Responses :
        LET x == ExtractElement(parser_instance, context, LoopSelector(selectors, idx),
                                ExtractDefaultTimeout(parser_instance), idx, r1, r2)
        IN
        /\ Admits("extract", Used(x, r1, r2)) /\ Played("extract", Used(x, r1, r2))
        /\ log' = log \o x.calls
        /\ IF x.raised
           THEN /\ exc' = x.result.error_message /\ raisedBy' = "extract"
                /\ pc' = "parse_except"
                /\ UNCHANGED <<self_results, idx>>
           ELSE /\ self_results' = Append(self_results, x.result)
                /\ idx' = idx + 1
                /\ UNCHANGED <<pc, exc, raisedBy>>
    /\ UNCHANGED <<parser, selectors, browser, nav, _parsers, parser_instance,
                   context, results>>

\* parse(): `return self.results` after the loop; results = await parse()
ParseReturn ==
    /\ pc = "extract"
    /\ idx > Len(selectors)
    /\ results' = self_results
    /\ pc' = "print"
    /\ UNCHANGED <<parser, selectors, browser, nav, _parsers, parser_instance,
                   context, self_results, idx, exc, raisedBy, log, session>>

\* parse(): the `except Exception` block and the return that follows it
ParseExcept ==
    /\ pc = "parse_except"
    /\ LET h == ParseHandler(parser_instance, selectors, self_results, exc) IN
        /\ self_results' = h.results
        /\ IF h.raised
           THEN /\ exc' = AttributeErrorMsg /\ raisedBy' = "handler"
                /\ pc' = "except"
                /\ UNCHANGED results
           ELSE /\ results' = h.results /\ pc' = "print"
                /\ UNCHANGED <<exc, raisedBy>>
    /\ UNCHANGED <<parser, selectors, browser, nav, _parsers, parser_instance,
                   context, idx, log, session>>

\* the loop printing the results
PrintResults ==
    /\ pc = "print"
    /\ IF results = <<>>
       THEN pc' = "finally" /\ UNCHANGED <<exc, raisedBy, log, session>>
       ELSE \E out \in {"ok", "error"} :
            /\ Admits("print", out) /\ Played("print", out)
            /\ log' = Append(log, SimpleCall("print", "console", "results", 0, out))
            /\ IF out = "ok"
               THEN pc' = "finally" /\ UNCHANGED <<exc, raisedBy>>
               ELSE exc' = PrintMsg /\ raisedBy' = "print" /\ pc' = "except"
    /\ UNCHANGED <<parser, selectors, browser, nav, _parsers, parser_instance,
                   context, self_results, results, idx>>

\* the outer `except Exception` block
Except ==
    /\ pc = "except"
    /\ results' = UnexpectedErrorResults(selectors, results, exc)
    /\ pc' = "finally"
    /\ UNCHANGED <<parser, selectors, browser, nav, _parsers, parser_instance,
                   context, self_results, idx, exc, raisedBy, log, session>>

\* the finally block and `return results`; an exception of close() leaves the
\* function instead of the return
Finally ==
    /\ pc = "finally"
    /\ IF ShouldClose(browser, exc)
       THEN \E out \in {"ok", "error"} :
            /\ Admits("close", out) /\ Played("close", out)
            /\ log' = Append(log, SimpleCall("close", "browser", None, 0, out))
            /\ IF out = "ok"
               THEN browser' = "closed" /\ pc' = "done" /\ UNCHANGED <<exc, raisedBy>>
               ELSE /\ exc' = DriverMsg /\ raisedBy' = "close" /\ pc' = "raised"
                    /\ UNCHANGED browser
       ELSE pc' = "done" /\ UNCHANGED <<browser, exc, raisedBy, log, session>>
    /\ UNCHANGED <<parser, selectors, nav, _parsers, parser_instance, context,
                   self_results, results, idx>>

Next ==
    \/ Launch
    \/ NewPage
    \/ Goto
    \/ CreateParser
    \/ PrintHeader
    \/ ParseSetup
    \/ ParseWait
    \/ ParseExtract
    \/ ParseReturn
    \/ ParseExcept
    \/ PrintResults
    \/ Except
    \/ Finally

Spec == Init /\ [][Next]_vars

\* ------------------------------------------- direct use of a parser object
\* A caller holding a parser and the context its setup() returned calls
\* extract_element itself, with a timeout of its choice, and keeps the results.
ContextsOf(cls) == {Setup(cls, out).context : out \in SetupOutcomes}

InitApi ==
    /\ parser_instance \in ParserClasses
    /\ parser = ParserTypeValue(parser_instance)
    /\ context \in ContextsOf(parser_instance)
    /\ selectors = <<>>
    /\ pc = "api"
    /\ browser = "open"
    /\ nav = "ok"
    /\ _parsers = InitialParsers
    /\ self_results = <<>>
    /\ results = <<>>
    /\ idx = 1
    /\ exc = None
    /\ raisedBy = None
    /\ log = <<>>
    /\ session = Session(0)

ApiExtractElement ==
    /\ pc = "api"
    /\ idx <= MaxApiCalls
    /\ \E selector \in SelectorNames, timeout \in ApiTimeouts,
          r1 \in QueryResponses, r2 \in QueryResponses :
        LET x == ExtractElement(parser_instance, context, selector, timeout, idx, r1, r2)
            call == Call("extract_element", "parser", selector, timeout, idx, r1)
        IN /\ log' = (log \o <<call>>) \o x.calls
           /\ results' = Append(results, x.result)
           /\ idx' = idx + 1
    /\ UNCHANGED <<parser, selectors, pc, browser, nav, _parsers, parser_instance,
                   context, self_results, exc, raisedBy, session>>

NextApi == ApiExtractElement

SpecApi == InitApi /\ [][NextApi]_vars

\* ------------------------------------- the same call made a second time
\* After a run returned, test_html_selectors is called again with the same
\* arguments: its locals start afresh, the class-level registry is what the
\* first run left, and the page answers as it did in the first run.
SelectorListsTwice ==
    {s \in SeqsUpTo(SelectorNames, MaxSelTwice) : s = <<>> \/ s[1] = "a"}

InitTwice ==
    /\ parser \in ParserType
    /\ selectors \in SelectorListsTwice
    /\ Locals
    /\ session = Session(1)

SecondCall ==
    /\ pc = "done"
    /\ session.left > 0
    /\ session' = [session EXCEPT !.left = 0, !.run = 2, !.prev = results]
    /\ results' = <<>>
    /\ browser' = None
    /\ pc' = "launch"
    /\ nav' = None
    /\ parser_instance' = None
    /\ context' = NoContext
    /\ idx' = 1
    /\ exc' = None
    /\ raisedBy' = None
    /\ log' = <<>>
    /\ UNCHANGED <<parser, selectors, _parsers, self_results>>

NextTwice == Next \/ SecondCall

SpecTwice == InitTwice /\ [][NextTwice]_vars

\* ---------------------------------------------- use of the parser factory
\* Callers register parser classes and create parsers, in any order.
RegistryModes == ParserType \cup {"custom"}
RegistryClasses == ParserClasses \cup {"CustomParser"}

InitRegistry ==
    /\ parser = DEFAULT
    /\ selectors = <<>>
    /\ pc = "registry"
    /\ browser = None
    /\ nav = None
    /\ _parsers = InitialParsers
    /\ parser_instance = None
    /\ context = NoContext
    /\ self_results = <<>>
    /\ results = <<>>
    /\ idx = 1
    /\ exc = None
    /\ raisedBy = None
    /\ log = <<>>
    /\ session = Session(0)

\* ParserFactory.register_parser(parser_type, parser_class)
RegisterParser ==
    /\ pc = "registry"
    /\ Len(log) < MaxRegistryCalls
    /\ \E t \in RegistryModes, c \in RegistryClasses :
        /\ _parsers' = Register(_parsers, t, c)
        /\ log' = Append(log, Call("register_parser", "factory", t, 0, 0, c))
    /\ UNCHANGED <<parser, selectors, pc, browser, nav, parser_instance, context,
                   self_results, results, idx, exc, raisedBy, session>>

\* ParserFactory.create_parser(parser_type, page, selectors)
CreateParserCall ==
    /\ pc = "registry"
    /\ Len(log) < MaxRegistryCalls
    /\ \E t \in RegistryModes :
        /\ parser' = t
        /\ parser_instance' = CreateParserClass(_parsers, t)
        /\ self_results' = NewResults(self_results)
        /\ log' = Append(log, Call("create_parser", "factory", t, 0, 0,
                                   CreateParserClass(_parsers, t)))
    /\ UNCHANGED <<selectors, pc, browser, nav, _parsers, context, results, idx,
                   exc, raisedBy, session>>

NextRegistry == RegisterParser \/ CreateParserCall

SpecRegistry == InitRegistry /\ [][NextRegistry]_vars

\* ------------------------------------------------------------ properties
IsQuery(e) == e.op = "wait_for_selector" /\ e.i > 0

\* the element queries made for selector number k, in order
QueriesOf(k) == SelectSeq(log, LAMBDA e : IsQuery(e) /\ e.i = k)

HeaderPrinted ==
    \E j \in 1..Len(log) :
        log[j].op = "print" /\ log[j].arg = "header" /\ log[j].out = "ok"

ParserOps ==
    {"setup", "wait_for_content", "wait_for_selector", "content_frame",
     "wait_for_load_state", "wait_for_timeout", "wait_for_function"}

\* C1: a run that returns, returns exactly one outcome per requested selector,
\* the k-th outcome carrying the k-th selector, whatever the driver answered.
C1_OneOutcomePerSelector ==
    pc = "done" =>
        /\ Len(results) = Len(selectors)
        /\ \A k \in 1..Len(selectors) : results[k].selector = selectors[k]

C1_Witness ==
    /\ pc = "done"
    /\ Len(selectors) = 2 /\ selectors[1] = selectors[2]
    /\ raisedBy = "handler"

\* C2: when page.goto succeeded or timed out (and the header was printed),
\* every requested selector has received at least one element query by the
\* time the run returns.
C2_OnlyNavigationShortCircuits ==
    (pc = "done" /\ nav \in {"ok", "timeout"} /\ HeaderPrinted) =>
        \A k \in 1..Len(selectors) : QueriesOf(k) # <<>>

\* C3: no exception leaves extract_element; a query that gave no readable
\* element yields found = FALSE with an error message and one that gave one
\* yields found = TRUE, each outcome decided by the queries of its own selector;
\* and once the first selector was attempted the loop attempts them all.
C3_ExtractNeverRaises ==
    /\ raisedBy # "extract"
    /\ \A k \in 1..Len(self_results) :
        LET qs == QueriesOf(k) IN
        /\ qs # <<>>
        /\ self_results[k].selector = selectors[k]
        /\ qs[Len(qs)].out = "failed" =>
              ~self_results[k].found /\ self_results[k].error_message # None
        /\ qs[Len(qs)].out = "ok" => self_results[k].found
    /\ (pc # "extract" /\ self_results # <<>>) => Len(self_results) = Len(selectors)

C3_Witness ==
    /\ pc = "done"
    /\ Len(self_results) = 2
    /\ ~self_results[1].found
    /\ self_results[2].found

\* C4: after a non-timeout failure of page.goto no parser is created and no
\* context lookup, readiness wait or element query is made, and the run returns
\* for every selector, in order, found = FALSE, a "Navigation failed" message
\* and the context "error".
C4_NavigationFailure ==
    nav = "error" =>
        /\ parser_instance = None
        /\ context = NoContext
        /\ \A j \in 1..Len(log) : log[j].op \notin ParserOps
        /\ pc = "done" =>
            /\ Len(results) = Len(selectors)
            /\ \A k \in 1..Len(selectors) :
                /\ results[k].selector = selectors[k]
                /\ ~results[k].found
                /\ results[k].error_message
                       \in {NavigationFailedMsg(e) : e \in {DriverMsg, TimeoutMsg}}
                /\ results[k].context = "error"

C4_Witness == pc = "done" /\ nav = "error" /\ Len(selectors) = 2

\* C5: with a resolved frame the Greenhouse parser queries the frame first,
\* queries the main page for the same selector exactly when the frame query
\* failed, and returns found = FALSE only after both queries, in that order.
C5_FrameThenMain ==
    (parser_instance = GreenhouseParser /\ context.frame # None) =>
        \A k \in 1..Len(self_results) :
            LET qs == QueriesOf(k) IN
            /\ Len(qs) \in {1, 2}
            /\ qs[1].target = "frame"
            /\ Len(qs) = 2 <=> qs[1].out = "failed"
            /\ Len(qs) = 2 => qs[2].target = "page" /\ qs[2].arg = qs[1].arg
            /\ ~self_results[k].found => Len(qs) = 2

C5_Witness ==
    /\ pc = "done"
    /\ parser_instance = GreenhouseParser /\ context.frame # None
    /\ \E k \in 1..Len(self_results) : ~self_results[k].found
    /\ \E k \in 1..Len(self_results) : self_results[k].found /\ Len(QueriesOf(k)) = 2

\* C6: in frame mode a returned outcome has the context "greenhouse_frame"
\* only if a frame was resolved and the frame query found the element, and has
\* the context "greenhouse" after a fallback and in every run whose setup
\* resolved no frame.
C6_ContextNamesTarget ==
    (pc = "done" /\ parser_instance = GreenhouseParser /\ context # NoContext) =>
        \A k \in 1..Len(results) :
            /\ results[k].context = "greenhouse_frame" =>
                  /\ context.frame # None
                  /\ Len(QueriesOf(k)) = 1
                  /\ QueriesOf(k)[1].target = "frame" /\ QueriesOf(k)[1].out = "ok"
            /\ (context.frame = None \/ Len(QueriesOf(k)) = 2) =>
                  results[k].context = "greenhouse"

\* C7: once the browser was launched the run ends only after browser.close()
\* was called, a run that returns has closed it, and no driver call follows
\* the close.
C7_BrowserClosed ==
    /\ (pc = "done" /\ browser # None) => browser = "closed"
    /\ (pc \in {"done", "raised"} /\ browser # None) =>
          \E j \in 1..Len(log) : log[j].op = "close"
    /\ \A j \in 1..Len(log) : log[j].op = "close" => j = Len(log)

C7_Witness == pc = "done" /\ browser = "closed" /\ raisedBy = "print"

\* C8: parse() does not raise, and the list it returns has one entry per
\* selector.
C8_ParseReturnsFullList ==
    /\ raisedBy # "handler"
    /\ pc = "print" => Len(results) = Len(selectors)

WellFormed(r) ==
    /\ r.found => r.error_message = None
    /\ ~r.found =>
          r.text_content = None /\ r.html_content = None /\ r.error_message # None

\* C9: in every outcome, found = TRUE implies no error message, and
\* found = FALSE implies no text, no markup and an error message.
C9_OutcomeShape ==
    /\ \A k \in 1..Len(results) : WellFormed(results[k])
    /\ \A k \in 1..Len(self_results) : WellFormed(self_results[k])

C9_Witness ==
    /\ pc = "done"
    /\ context.frame # None
    /\ Len(results) = 2
    /\ results[1].found /\ results[1].context = "greenhouse"
    /\ ~results[2].found

\* C10: whenever the main-page fallback query follows a frame query for the
\* same selector, its timeout is strictly smaller than the frame query's.
C10_FallbackTimeoutSmaller ==
    \A j \in 2..Len(log) :
        (/\ IsQuery(log[j]) /\ IsQuery(log[j - 1])
         /\ log[j].i = log[j - 1].i
         /\ log[j - 1].target = "frame" /\ log[j].target = "page") =>
            log[j].timeout < log[j - 1].timeout

\* C11: after a timeout of page.goto the parser of the requested type is
\* created and run, and a run that ends without any exception returns the
\* list parse() built, one extraction outcome per selector, none of them a
\* navigation failure.
C11_TimeoutProceeds ==
    nav = "timeout" =>
        /\ pc # "create" =>
              parser_instance # None /\ ParserTypeValue(parser_instance) = parser
        /\ (pc = "done" /\ raisedBy = None) =>
              /\ results = self_results
              /\ Len(results) = Len(selectors)
              /\ \A k \in 1..Len(results) :
                    /\ QueriesOf(k) # <<>>
                    /\ results[k].context # "error"

C11_Witness ==
    /\ pc = "done" /\ nav = "timeout" /\ raisedBy = None
    /\ Len(results) = 2
    /\ results[1].found /\ ~results[2].found

\* the answer to the last query made for selector number k
LastAnswer(k) == QueriesOf(k)[Len(QueriesOf(k))].out

\* C12 (as claimed): when the queried element came back and was read, the
\* outcome has found = TRUE, non-empty text, non-empty markup and no error.
C12_FoundNonEmpty ==
    \A k \in 1..Len(self_results) :
        LastAnswer(k) = "ok" =>
            /\ self_results[k].found
            /\ self_results[k].text_content \notin {None, ""}
            /\ self_results[k].html_content \notin {None, ""}
            /\ self_results[k].error_message = None

\* C12 (amended): when the queried element came back and was read, the outcome
\* has found = TRUE, the text and the markup the driver returned (possibly
\* empty strings) and no error.
C12_FoundWithContent ==
    \A k \in 1..Len(self_results) :
        LastAnswer(k) = "ok" =>
            /\ self_results[k].found
            /\ self_results[k].text_content \in Texts
            /\ self_results[k].html_content \in Htmls
            /\ self_results[k].error_message = None

C12_Witness ==
    /\ pc = "done"
    /\ Len(self_results) = 2
    /\ self_results[1].found /\ self_results[1].text_content = ""
    /\ self_results[2].found /\ self_results[2].html_content = "<p>"

\* the class registered last for mode m among the first j calls, the initial
\* one if none was, DefaultParser for a mode that was never in the table
LastRegistered(m, j) ==
    LET regs == {i \in 1..j : log[i].op = "register_parser" /\ log[i].arg = m}
    IN IF regs # {}
       THEN log[CHOOSE i \in regs : \A i2 \in regs : i2 <= i].out
       ELSE IF m = GREENHOUSE THEN GreenhouseParser
       ELSE IF m = ANGULAR THEN AngularParser
       ELSE DefaultParser

\* C13: create_parser builds the class registered last for the mode, the
\* initial one if none was, DefaultParser for a mode absent from the table;
\* and the table maps every mode to the class registered last for it, so that
\* registering one mode changes no other.
C13_RegistryResolves ==
    /\ \A j \in 1..Len(log) :
          log[j].op = "create_parser" => log[j].out = LastRegistered(log[j].arg, j - 1)
    /\ \A m \in RegistryModes :
          IF m \in DOMAIN _parsers
          THEN _parsers[m] = LastRegistered(m, Len(log))
          ELSE \A j \in 1..Len(log) :
                  ~(log[j].op = "register_parser" /\ log[j].arg = m)

C13_Witness ==
    /\ Len(log) = 3
    /\ log[1].op = "create_parser" /\ log[1].arg = "custom" /\ log[1].out = DefaultParser
    /\ log[2].op = "register_parser" /\ log[2].arg = GREENHOUSE
    /\ log[3].op = "create_parser" /\ log[3].arg = GREENHOUSE
    /\ log[3].out = "CustomParser"
    /\ _parsers[ANGULAR] = AngularParser

\* C14: when the call is repeated with the same arguments against a page that
\* answers as in the first run, the second run returns a list with the same
\* found and text values, position by position, as the first.
C14_Idempotent ==
    (session.run = 2 /\ pc = "done") =>
        /\ Len(results) = Len(session.prev)
        /\ \A k \in 1..Len(results) :
              /\ results[k].found = session.prev[k].found
              /\ results[k].text_content = session.prev[k].text_content

C14_Witness ==
    /\ session.run = 2 /\ pc = "done"
    /\ session.cursor > Len(session.script)
    /\ Len(results) = 1
    /\ results[1].found /\ results[1].context = "greenhouse"

\* C15: a run stops only by returning: in every state in which the function
\* has not returned, it can take a further step.
C15_RunReturns == pc = "done" \/ ENABLED Next

\* C16: when an exception left setup() or wait_for_content(), the except block
\* of parse() completes and parse() returns a list with, for every selector,
\* found = FALSE, a "Parser error" message and the parser's mode as context.
C16_AbortHandlerBackfills ==
    (pc \in {"print", "except"} /\ raisedBy \in {"setup", "wait", "handler"}) =>
        /\ pc = "print"
        /\ Len(results) = Len(selectors)
        /\ \A k \in 1..Len(results) :
              /\ results[k].selector = selectors[k]
              /\ ~results[k].found
              /\ results[k].error_message
                    \in {ParserErrorMsg(e) : e \in {DriverMsg, TimeoutMsg}}
              /\ results[k].context = parser

StageOps == {"wait_for_load_state", "wait_for_timeout", "wait_for_function"}

\* the readiness calls of wait_for_content, in order
Stages == SelectSeq(log, LAMBDA e : e.op \in StageOps)

AllStages ==
    <<[op |-> "wait_for_load_state", arg |-> "domcontentloaded"],
      [op |-> "wait_for_timeout", arg |-> "bootstrap"],
      [op |-> "wait_for_function", arg |-> "indicators"],
      [op |-> "wait_for_timeout", arg |-> "render"]>>

Waited == \E j \in 1..Len(log) : log[j].op = "wait_for_content"

\* the element queries, in order
Queries == SelectSeq(log, IsQuery)

\* among the readiness calls and the element queries, no readiness call
\* follows a query
StagesBeforeQueries ==
    LET m == SelectSeq(log, LAMBDA e : e.op \in StageOps \/ IsQuery(e))
    IN \A k \in 1..(Len(m) - 1) : IsQuery(m[k]) => IsQuery(m[k + 1])

\* the queries go through the selectors in input order
QueriesInOrder ==
    LET q == Queries
    IN \A k \in 1..Len(q) :
          /\ q[k].i \in 1..Len(selectors) /\ q[k].arg = selectors[q[k].i]
          /\ k > 1 => q[k - 1].i <= q[k].i

\* C17 (as claimed): in Angular mode, whenever no readiness call raised a
\* non-timeout error, all four stages are performed, in order, before the
\* first selector query.
C17_FourStages ==
    (parser_instance = AngularParser /\ Waited) =>
        /\ StagesBeforeQueries
        /\ (\A j \in 1..Len(Stages) : Stages[j].out # "error") =>
              /\ Len(Stages) = 4
              /\ \A j \in 1..4 :
                    Stages[j].op = AllStages[j].op /\ Stages[j].arg = AllStages[j].arg

\* C17 (amended): in Angular mode the stages performed are an initial part of
\* the four, in order, all before the first selector query; all four are
\* performed exactly when the DOM-ready wait and the first sleep returned and
\* the poll returned or timed out, so a poll timeout does not skip the last
\* sleep, while a timeout of the DOM-ready wait ends the readiness phase.
C17_StagesPrefix ==
    (parser_instance = AngularParser /\ Waited) =>
        LET s == Stages
        IN /\ StagesBeforeQueries
           /\ Len(s) \in 1..4
           /\ \A j \in 1..Len(s) :
                 s[j].op = AllStages[j].op /\ s[j].arg = AllStages[j].arg
           /\ s[1].out # "ok" => Len(s) = 1
           /\ Len(s) = 4 <=>
                 /\ s[1].out = "ok"
                 /\ Len(s) >= 2 /\ s[2].out = "ok"
                 /\ Len(s) >= 3 /\ s[3].out \in {"ok", "timeout"}
           /\ raisedBy # "wait"

C17_Witness ==
    /\ pc = "done" /\ parser_instance = AngularParser
    /\ Len(Stages) = 4 /\ Stages[3].out = "timeout"
    /\ Len(self_results) = 2 /\ self_results[2].found

\* C18: in each mode, after a timeout of the load-state wait or of the marker
\* poll no exception leaves wait_for_content, and once the loop is over every
\* selector has been queried, in input order.
C18_ReadinessTimeoutProceeds ==
    (\E j \in 1..Len(log) :
        /\ log[j].op \in {"wait_for_load_state", "wait_for_function"}
        /\ log[j].out = "timeout") =>
        /\ raisedBy # "wait"
        /\ pc # "parse_except"
        /\ pc # "extract" => \A k \in 1..Len(selectors) : QueriesOf(k) # <<>>
        /\ QueriesInOrder

C18_Witness ==
    /\ pc = "done"
    /\ parser_instance = GreenhouseParser
    /\ \E j \in 1..Len(log) :
          /\ log[j].op = "wait_for_load_state" /\ log[j].target = "frame"
          /\ log[j].out = "timeout"
    /\ Len(selectors) = 2 /\ QueriesOf(2) # <<>>

\* the lookup of the iframe found it and content_frame() returned its frame
FrameObtained ==
    \E j \in 1..(Len(log) - 1) :
        /\ log[j].op = "wait_for_selector" /\ log[j].arg = IframeSelector
        /\ log[j].out = "element"
        /\ log[j + 1].op = "content_frame" /\ log[j + 1].out = "frame"

\* C19: GreenhouseParser.setup never raises, and the context it returns has a
\* frame exactly when the iframe element was found and its frame obtained;
\* otherwise the context has no frame and its target is the main page.
C19_SetupContext ==
    /\ raisedBy # "setup"
    /\ (parser_instance = GreenhouseParser
          /\ \E j \in 1..Len(log) : log[j].op = "setup") =>
          /\ context.parser_type = GREENHOUSE
          /\ context.frame # None <=> FrameObtained
          /\ context.frame = None => Target(context) = "page"

C19_Witness ==
    /\ pc = "done" /\ parser_instance = GreenhouseParser
    /\ \E j \in 1..Len(log) : log[j].op = "content_frame" /\ log[j].out = "frame_error"
    /\ context.frame = None
    /\ Len(self_results) = 1 /\ self_results[1].found

\* the calls of setup and wait_for_content and the element queries, in order
ParseSteps ==
    SelectSeq(log, LAMBDA e : e.op \in {"setup", "wait_for_content"} \/ IsQuery(e))

\* C20: a parse() calls setup once and wait_for_content once, both before the
\* first element query; the queries go through the selectors in input order,
\* each for the selector of its position, none for a selector whose
\* predecessors have no outcome yet; and the k-th outcome of the results list
\* is that of the k-th selector.
C20_OncePerParseInOrder ==
    /\ LET m == ParseSteps
       IN \A k \in 1..Len(m) :
             /\ k = 1 <=> m[k].op = "setup"
             /\ k = 2 <=> m[k].op = "wait_for_content"
             /\ k > 2 => IsQuery(m[k]) /\ m[k].i <= Len(self_results)
    /\ QueriesInOrder
    /\ Len(self_results) <= Len(selectors)
    /\ \A k \in 1..Len(self_results) :
          /\ self_results[k].selector = selectors[k]
          /\ QueriesOf(k) # <<>>
    /\ pc = "extract" => Len(self_results) = idx - 1

C20_Witness ==
    /\ pc = "extract"
    /\ Len(selectors) = 2 /\ selectors[1] # selectors[2]
    /\ Len(self_results) = 1
    /\ parser_instance = GreenhouseParser /\ Len(QueriesOf(1)) = 2

\* a query that is the first one made for its selector
IsPrimary(j) ==
    /\ IsQuery(log[j])
    /\ j > 1 => ~(IsQuery(log[j - 1]) /\ log[j - 1].i = log[j].i)

\* C21: every element query of a run with the Angular parser has a timeout of
\* at least AngularTimeout, and every first query for a selector of a run with
\* the default or the Greenhouse parser has a smaller one, so the former are
\* strictly greater than the latter.
C21_AngularTimeoutLonger ==
    \A j \in 1..Len(log) :
        IsQuery(log[j]) =>
            IF parser_instance = AngularParser
            THEN log[j].timeout >= AngularTimeout
            ELSE IsPrimary(j) => log[j].timeout < AngularTimeout

C21_Witness ==
    /\ pc = "done" /\ parser_instance = AngularParser
    /\ Len(Queries) = 2
    /\ Queries[1].timeout = AngularTimeout /\ Queries[2].timeout = AngularTimeout
    /\ self_results[1].found /\ ~self_results[2].found

\* the call of extract_element number k: its selector, timeout and the
\* driver's response to its first query
ExtractCall(k) ==
    SelectSeq(log, LAMBDA e : e.op = "extract_element" /\ e.i = k)[1]

\* C22: with a context that has no frame, GreenhouseParser.extract_element
\* makes exactly the one query SelectorParser.extract_element makes for the
\* same context, selector, timeout and driver response (on the main page, with
\* the timeout it was given) and returns the same result.
C22_NoFrameIsBase ==
    (parser_instance = GreenhouseParser /\ context.frame = None) =>
        \A k \in 1..Len(results) :
            LET e == ExtractCall(k)
                q == QueriesOf(k)
                b == BaseExtract(context, e.arg, e.timeout, k, e.out)
            IN /\ Len(q) = 1
               /\ q[1].target = "page" /\ q[1].arg = e.arg
               /\ q[1].timeout = e.timeout
               /\ q = b.calls
               /\ results[k] = b.result

C22_Witness ==
    /\ parser_instance = GreenhouseParser /\ context.frame = None
    /\ Len(results) = 1
    /\ ~results[1].found /\ results[1].error_message = NotFoundMsg
    /\ ExtractCall(1).timeout = 10000

====
